---- MODULE Spec2Model ----
(***************************************************************************)
(* A model of the two pieces of the repository that manage processes and   *)
(* threads:                                                                *)
(*   - the Progress Relay of app.py: download_with_hook running on a       *)
(*     background thread, and the polling loop of the Download handler;    *)
(*   - the Process Runner of Code_Bug.py: run_python_realtime and          *)
(*     run_java_realtime.                                                  *)
(***************************************************************************)
EXTENDS Integers, Sequences, FiniteSets, TLC

(***************************************************************************)
(* Bounds of the model.                                                    *)
(***************************************************************************)
\* the number of progress events the external operation emits at most
MaxEvents == 3
\* the largest caller-supplied timeout, in ticks
MaxTimeout == 3
\* the number of output chunks a child process writes at most
MaxOut == 2
\* ticks that killing and reaping a timed-out child takes at most
Overhead == 1
\* the number of tokens of a captured text at most
MaxText == 4
\* the largest byte count of a progress event
MaxBytes == 4

VARIABLES
    \* ---- Progress Relay (app.py) ----
    w_pc,        \* position of the download thread in download_with_hook
    opResult,    \* how ydl.extract_info ended: "running", "returned", "raised", "escaped"
    opExc,       \* str(e) of the exception the operation raised, "" if none
    events_q,    \* Queue(): the events channel
    result_q,    \* Queue(): the result channel
    trace,       \* history: every put of the thread, in order
    handled,     \* history: the events the polling loop has handled, in order
    f_pc,        \* position of the foreground (Download button handler)
    result,      \* the foreground's variable result: <<>> is None, <<o>> an outcome
    \* ---- Process Runner (Code_Bug.py) ----
    language,    \* "none", "Python" or "Java": which runner is invoked
    timeout,     \* the timeout argument, in ticks
    r_pc,        \* position inside the runner
    tmp,         \* the temporary file / directory: "none", "exists", "removed"
    child,       \* the current child process: "none", "running", "exited", "killed"
    phase,       \* "none", "compile" or "run": what the current child is
    elapsed,     \* ticks the current child has been running
    clock,       \* ticks since the invocation started
    childOut,    \* the stdout chunks captured from the current child so far
    launched,    \* history: the phases whose child was started, in order
    comp,        \* history: <<>> or <<the CompletedProcess of javac>>
    pend,        \* the value of the return statement executed, pending finally
    ret,         \* <<>> or <<the tuple returned to the caller>>
    escaped,     \* an exception propagated out of the runner to its caller
    cause,       \* history: why the runner ended: "none", "exit", "timeout", "internal", "toolchain"
    \* ---- Realtime Execution handlers (Code_Bug.py) ----
    shown,       \* the widgets the handler has rendered after the run, in order
    \* ---- functions checked on their own ----
    p_pc,        \* "idle", "call" (arguments chosen) or "returned"
    p_in,        \* the arguments of the call
    p_out        \* what the call returned or displayed

relayVars == <<w_pc, opResult, opExc, events_q, result_q, trace, handled, f_pc, result>>
runnerVars == <<language, timeout, r_pc, tmp, child, phase, elapsed, clock, childOut,
                launched, comp, pend, ret, escaped, cause>>
callVars == <<shown, p_pc, p_in, p_out>>
vars == <<relayVars, runnerVars, callVars>>

(***************************************************************************)
(* Progress Relay                                                          *)
(***************************************************************************)
\* ProgressEvent statuses the hook passes on (the dict d of yt-dlp)
Statuses == {"downloading", "finished", "error"}
\* texts of the exceptions the external operation raises
ExcTexts == {"boom", ""}

\* the n-th dict the progress hook receives
Event(n, s) == [seq |-> n, status |-> s]

\* result_q.put({"status": "finished", "info": info})
FinishedOutcome == [status |-> "finished", payload |-> "info"]
\* result_q.put({"status": "error", "error": str(e)})
ErrorOutcome(e) == [status |-> "error", payload |-> e]

\* Queue.put: append at the tail
Put(q, x) == Append(q, x)
\* Queue.get_nowait on a non-empty queue: the item at the head ...
GetLifo(q) == q[Len(q)]
Get(q) == Head(q)
\* ... and the queue without it
Rest(q) == Tail(q)

\* the events the thread has put, out of its trace
RECURSIVE EventsOf(_)
EventsOf(t) ==
    IF t = <<>> THEN <<>>
    ELSE IF Head(t).chan = "events" THEN <<Head(t).ev>> \o EventsOf(Tail(t))
    ELSE EventsOf(Tail(t))
\* the outcomes the thread has put, out of its trace
RECURSIVE OutcomesOf(_)
OutcomesOf(t) ==
    IF t = <<>> THEN <<>>
    ELSE IF Head(t).chan = "result" THEN <<Head(t).out>> \o OutcomesOf(Tail(t))
    ELSE OutcomesOf(Tail(t))

\* download_thread.is_alive()
is_alive == w_pc # "dead"

\* progress_hook(d), called by the external operation while it runs
ProgressHook ==
    /\ w_pc = "extract"
    /\ Len(EventsOf(trace)) < MaxEvents
    /\ \E s \in Statuses :
        LET d == Event(Len(EventsOf(trace)) + 1, s) IN
        /\ events_q' = Put(events_q, d)
        /\ trace' = Append(trace, [chan |-> "events", ev |-> d])
    /\ UNCHANGED <<w_pc, opResult, opExc, result_q, handled, f_pc, result, runnerVars, callVars>>

\* ydl.extract_info returns normally (and the with block is left)
OpReturns ==
    /\ w_pc = "extract"
    /\ w_pc' = "put_finished"
    /\ opResult' = "returned"
    /\ UNCHANGED <<opExc, events_q, result_q, trace, handled, f_pc, result, runnerVars, callVars>>

\* ydl.extract_info raises an Exception: control goes to the except clause
OpRaises ==
    /\ w_pc = "extract"
    /\ \E e \in ExcTexts : opExc' = e
    /\ w_pc' = "put_error"
    /\ opResult' = "raised"
    /\ UNCHANGED <<events_q, result_q, trace, handled, f_pc, result, runnerVars, callVars>>

\* ydl.extract_info raises a BaseException that is no Exception (SystemExit,
\* KeyboardInterrupt): except Exception does not catch it, the thread ends
OpEscapes ==
    /\ w_pc = "extract"
    /\ w_pc' = "dead"
    /\ opResult' = "escaped"
    /\ UNCHANGED <<opExc, events_q, result_q, trace, handled, f_pc, result, runnerVars, callVars>>

\* the outcome the thread puts, by the branch it is in
OutcomeForSwapped(pc, e) == IF pc = "put_finished" THEN ErrorOutcome(e) ELSE FinishedOutcome
OutcomeFor(pc, e) == IF pc = "put_finished" THEN FinishedOutcome ELSE ErrorOutcome(e)

\* result_q.put(...) of either branch, then the return statement
PutOutcome ==
    /\ w_pc \in {"put_finished", "put_error"}
    /\ result_q' = Put(result_q, OutcomeFor(w_pc, opExc))
    /\ trace' = Append(trace, [chan |-> "result", out |-> OutcomeFor(w_pc, opExc)])
    /\ w_pc' = "return"
    /\ UNCHANGED <<opResult, opExc, events_q, handled, f_pc, result, runnerVars, callVars>>

\* download_with_hook returns and the thread terminates
ThreadExit ==
    /\ w_pc = "return"
    /\ w_pc' = "dead"
    /\ UNCHANGED <<opResult, opExc, events_q, result_q, trace, handled, f_pc, result, runnerVars, callVars>>

\* while download_thread.is_alive() or not result_q.empty():
LoopCond == is_alive \/ result_q # <<>>

PollCond ==
    /\ f_pc = "while"
    /\ f_pc' = IF LoopCond THEN "drain" ELSE "get_result"
    /\ UNCHANGED <<w_pc, opResult, opExc, events_q, result_q, trace, handled, result, runnerVars, callVars>>

\* one turn of the inner while True: ev = events_q.get_nowait() and its handling,
\* or the Empty that ends the drain
Drain ==
    /\ f_pc = "drain"
    /\ IF events_q # <<>>
       THEN /\ handled' = Append(handled, Get(events_q))
            /\ events_q' = Rest(events_q)
            /\ f_pc' = "drain"
       ELSE /\ f_pc' = "sleep"
            /\ UNCHANGED <<handled, events_q>>
    /\ UNCHANGED <<w_pc, opResult, opExc, result_q, trace, result, runnerVars, callVars>>

\* time.sleep(0.1)
Sleep ==
    /\ f_pc = "sleep"
    /\ f_pc' = "while"
    /\ UNCHANGED <<w_pc, opResult, opExc, events_q, result_q, trace, handled, result, runnerVars, callVars>>

\* result = result_q.get_nowait(), None on Empty, and the two checks after it
GetResultBlocking ==
    /\ f_pc = "get_result"
    /\ result_q # <<>>
    /\ result' = <<Get(result_q)>>
    /\ result_q' = Rest(result_q)
    /\ f_pc' = IF Get(result_q).status = "error" THEN "download_failed" ELSE "completed"
    /\ UNCHANGED <<w_pc, opResult, opExc, events_q, trace, handled, runnerVars, callVars>>
GetResult ==
    /\ f_pc = "get_result"
    /\ IF result_q = <<>>
       THEN /\ result' = <<>>
            /\ f_pc' = "failed_or_interrupted"
            /\ UNCHANGED result_q
       ELSE /\ result' = <<Get(result_q)>>
            /\ result_q' = Rest(result_q)
            /\ f_pc' = IF Get(result_q).status = "error" THEN "download_failed" ELSE "completed"
    /\ UNCHANGED <<w_pc, opResult, opExc, events_q, trace, handled, runnerVars, callVars>>

WorkerFinish == OpReturns \/ OpRaises \/ OpEscapes \/ PutOutcome \/ ThreadExit
PollerNext == PollCond \/ Drain \/ Sleep \/ GetResult

RelayInit ==
    /\ w_pc = "extract"
    /\ opResult = "running"
    /\ opExc = ""
    /\ events_q = <<>>
    /\ result_q = <<>>
    /\ trace = <<>>
    /\ handled = <<>>
    /\ f_pc = "while"
    /\ result = <<>>

RunnerInit ==
    /\ language = "none"
    /\ timeout = 0
    /\ r_pc = "idle"
    /\ tmp = "none"
    /\ child = "none"
    /\ phase = "none"
    /\ elapsed = 0
    /\ clock = 0
    /\ childOut = <<>>
    /\ launched = <<>>
    /\ comp = <<>>
    /\ pend = <<>>
    /\ ret = <<>>
    /\ escaped = FALSE
    /\ cause = "none"

\* no handler has rendered anything and no function is being called
CallInit ==
    /\ shown = <<>>
    /\ p_pc = "idle"
    /\ p_in = <<>>
    /\ p_out = <<>>

Init == RelayInit /\ RunnerInit /\ CallInit

RelayNext == ProgressHook \/ WorkerFinish \/ PollerNext

\* the relay, with no assumption on scheduling
RelaySpec == Init /\ [][RelayNext]_vars
\* the relay when the foreground keeps running and the thread, once the external
\* operation has ended, runs to its end
RelayFairSpec ==
    /\ RelaySpec
    /\ WF_vars(PollerNext)
    /\ WF_vars(PutOutcome \/ ThreadExit)

(***************************************************************************)
(* Progress Relay: the claims                                              *)
(***************************************************************************)
IsPrefix(s, t) == Len(s) <= Len(t) /\ SubSeq(t, 1, Len(s)) = s

\* C1: once the thread has put its outcome on the result channel, the foreground
\* eventually leaves the polling loop holding that outcome, having handled every
\* event the thread put, in the order of the puts.
C1_OutcomeDelivered ==
    (OutcomesOf(trace) # <<>>) ~>
        (/\ f_pc \in {"download_failed", "completed"}
         /\ result = <<OutcomesOf(trace)[1]>>
         /\ handled = EventsOf(trace))

\* C2: when the thread has ended without putting an outcome, the foreground
\* eventually reaches 'Download failed or was interrupted', and it never reports
\* a completed download while no outcome was put.
C2_MissingResult ==
    /\ (w_pc = "dead" /\ OutcomesOf(trace) = <<>>) ~> (f_pc = "failed_or_interrupted")
    /\ [](OutcomesOf(trace) = <<>> => f_pc # "completed")
\* the thread died of an escaping exception and the foreground reported the failure
C2_Witness ==
    /\ opResult = "escaped"
    /\ w_pc = "dead"
    /\ f_pc = "failed_or_interrupted"
    /\ result = <<>>

\* C3: the events the polling loop has handled are a prefix of the events the
\* progress hook has put: none out of order, none twice, none skipped.
C3_EventOrder == IsPrefix(handled, EventsOf(trace))
\* two events of different status were handled, the second put while the first
\* was already taken
C3_Witness ==
    /\ Len(handled) >= 2
    /\ handled[1].status # handled[2].status
    /\ events_q = <<>>

\* C4: when the external operation returned or raised an Exception, the thread
\* puts exactly one outcome, after the operation ended, 'finished' exactly when the
\* operation returned and 'error' with the exception text otherwise, and it puts
\* no progress event after the outcome.
C4_SingleOutcome ==
    LET outs == OutcomesOf(trace) IN
    /\ Len(outs) <= 1
    /\ (w_pc = "dead" /\ opResult \in {"returned", "raised"}) => Len(outs) = 1
    /\ outs # <<>> =>
        /\ opResult \in {"returned", "raised"}
        /\ (outs[1].status = "finished") <=> (opResult = "returned")
        /\ opResult = "raised" => outs[1] = [status |-> "error", payload |-> opExc]
        /\ trace[Len(trace)].chan = "result"
\* the operation emitted an event, raised, and the thread ended after its put
C4_Witness ==
    /\ w_pc = "dead"
    /\ opResult = "raised"
    /\ opExc # ""
    /\ Len(EventsOf(trace)) >= 1
    /\ Len(OutcomesOf(trace)) = 1

\* C15: whenever the foreground has left the polling loop, the events channel is
\* empty: every event the thread put has been handled.
C15_NoEventLost == f_pc \notin {"while", "drain", "sleep"} => events_q = <<>>

(***************************************************************************)
(* Process Runner                                                          *)
(***************************************************************************)
Languages == {"Python", "Java"}
\* Popen.returncode of a child that ended: its exit status, or -N when signal N
\* ended it (1 SIGHUP, 2 SIGINT, 3 SIGQUIT, 9 SIGKILL)
Signals == {1, 2, 3, 9}
ExitStatuses == {0, 1} \cup {-n : n \in Signals}
\* what a child leaves on stderr
ChildErrs == {"", "Traceback"}
\* str(e) of the OSError of a failed launch or write
OsErrors == {"Permission denied"}
\* str(e) of subprocess.TimeoutExpired
StrTimeoutExpired == "Command timed out"

\* a text is the sequence of its chunks; an optional value is <<>> (None) or <<x>>
EmptyText == <<>>
None == <<>>
Some(x) == <<x>>

\* the tuple (returncode, stdout, stderr)
ExecutionResult(rc, out, err) == [rc |-> rc, out |-> out, err |-> err]

\* TimeoutExpired.stdout: what was captured, None when nothing was
ExcStdout(out) == IF out = EmptyText THEN None ELSE Some(out)
\* e.stdout or ""
OrEmpty(o) == IF o = None THEN EmptyText ELSE IF o[1] = EmptyText THEN EmptyText ELSE o[1]
\* str(e) or "Execution timed out"
OrTimedOut(m) == IF m = "" THEN "Execution timed out" ELSE m

\* return -1, e.stdout or "", (str(e) or "Execution timed out")
TimeoutResultNoStdout(out) == ExecutionResult(-1, EmptyText, OrTimedOut(StrTimeoutExpired))
TimeoutResult(out) == ExecutionResult(-1, OrEmpty(ExcStdout(out)), OrTimedOut(StrTimeoutExpired))
\* return -2, "", str(e)
InternalResult(e) == ExecutionResult(-2, EmptyText, e)
\* return -3, "", "javac or java executable not found on PATH"
ToolchainResult == ExecutionResult(-3, EmptyText, "javac or java executable not found on PATH")

\* if comp.returncode != 0:
CompileFailedPositive(cp) == cp.rc > 0
CompileFailed(cp) == cp.rc # 0

\* the phase the next subprocess.run starts
NextPhase == IF language = "Java" /\ comp = <<>> THEN "compile" ELSE "run"

\* the Realtime Execution handler calls run_python_realtime or run_java_realtime
RunRequest ==
    /\ r_pc = "idle"
    /\ \E l \in Languages, t \in 1..MaxTimeout :
        /\ language' = l
        /\ timeout' = t
        /\ r_pc' = IF l = "Python" THEN "mkstemp" ELSE "which"
    /\ UNCHANGED <<tmp, child, phase, elapsed, clock, childOut, launched, comp, pend, ret,
                   escaped, cause, relayVars, callVars>>

\* shutil.which('javac'), shutil.which('java') and the return of -3
Which ==
    /\ r_pc = "which"
    /\ \E found \in BOOLEAN :
        IF found
        THEN r_pc' = "mkdtemp" /\ UNCHANGED <<ret, cause>>
        ELSE r_pc' = "done" /\ ret' = Some(ToolchainResult) /\ cause' = "toolchain"
    /\ UNCHANGED <<language, timeout, tmp, child, phase, elapsed, clock, childOut, launched,
                   comp, pend, escaped, relayVars, callVars>>

\* tempfile.mkstemp(suffix=".py") / tempfile.mkdtemp(), both before the try: an
\* OSError propagates to the caller
MakeTemp ==
    /\ r_pc \in {"mkstemp", "mkdtemp"}
    /\ \E ok \in BOOLEAN :
        IF ok
        THEN tmp' = "exists" /\ r_pc' = "write" /\ UNCHANGED escaped
        ELSE escaped' = TRUE /\ r_pc' = "done" /\ UNCHANGED tmp
    /\ UNCHANGED <<language, timeout, child, phase, elapsed, clock, childOut, launched,
                   comp, pend, ret, cause, relayVars, callVars>>

\* run_python_realtime: os.close(fd) and the write of the code, before the try:
\* an OSError propagates to the caller and the finally clause is not entered
WritePython ==
    /\ r_pc = "write"
    /\ language = "Python"
    /\ \E ok \in BOOLEAN :
        IF ok
        THEN r_pc' = "launch" /\ UNCHANGED escaped
        ELSE escaped' = TRUE /\ r_pc' = "done"
    /\ UNCHANGED <<language, timeout, tmp, child, phase, elapsed, clock, childOut, launched,
                   comp, pend, ret, cause, relayVars, callVars>>

\* run_java_realtime: the write of the source, inside the try: an OSError is
\* caught by except Exception
WriteJava ==
    /\ r_pc = "write"
    /\ language = "Java"
    /\ \E ok \in BOOLEAN :
        IF ok
        THEN r_pc' = "launch" /\ UNCHANGED <<pend, cause>>
        ELSE \E e \in OsErrors :
                /\ pend' = Some(InternalResult(e))
                /\ cause' = "internal"
                /\ r_pc' = "finally"
    /\ UNCHANGED <<language, timeout, tmp, child, phase, elapsed, clock, childOut, launched,
                   comp, ret, escaped, relayVars, callVars>>

\* subprocess.run(...) starts its child
Launch ==
    /\ r_pc = "launch"
    /\ child' = "running"
    /\ phase' = NextPhase
    /\ launched' = Append(launched, NextPhase)
    /\ elapsed' = 0
    /\ childOut' = EmptyText
    /\ r_pc' = "wait"
    /\ UNCHANGED <<language, timeout, tmp, clock, comp, pend, ret, escaped, cause, relayVars, callVars>>

\* subprocess.run(...) cannot start its child: except Exception
LaunchFails ==
    /\ r_pc = "launch"
    /\ \E e \in OsErrors : pend' = Some(InternalResult(e))
    /\ cause' = "internal"
    /\ r_pc' = "finally"
    /\ UNCHANGED <<language, timeout, tmp, child, phase, elapsed, clock, childOut, launched,
                   comp, ret, escaped, relayVars, callVars>>

\* a tick passes while subprocess.run waits for the child
Tick ==
    /\ r_pc = "wait"
    /\ child = "running"
    /\ elapsed < timeout
    /\ elapsed' = elapsed + 1
    /\ clock' = clock + 1
    /\ UNCHANGED <<language, timeout, r_pc, tmp, child, phase, childOut, launched, comp,
                   pend, ret, escaped, cause, relayVars, callVars>>

\* the child writes to its stdout, which capture_output=True collects
ChildWrites ==
    /\ r_pc = "wait"
    /\ child = "running"
    /\ Len(childOut) < MaxOut
    /\ childOut' = Append(childOut, "out")
    /\ UNCHANGED <<language, timeout, r_pc, tmp, child, phase, elapsed, clock, launched,
                   comp, pend, ret, escaped, cause, relayVars, callVars>>

\* the child ends within the timeout: subprocess.run returns its CompletedProcess;
\* then, by the phase, the check of comp.returncode or the return of the run
ChildExits ==
    /\ r_pc = "wait"
    /\ child = "running"
    /\ \E rc \in ExitStatuses, err \in ChildErrs :
        LET cp == ExecutionResult(rc, childOut, err) IN
        IF phase = "compile"
        THEN /\ comp' = Some(cp)
             /\ IF CompileFailed(cp)
                THEN pend' = Some(cp) /\ cause' = "exit" /\ r_pc' = "finally"
                ELSE r_pc' = "launch" /\ UNCHANGED <<pend, cause>>
        ELSE /\ pend' = Some(cp)
             /\ cause' = "exit"
             /\ r_pc' = "finally"
             /\ UNCHANGED comp
    /\ child' = "exited"
    /\ UNCHANGED <<language, timeout, tmp, phase, elapsed, clock, childOut, launched, ret,
                   escaped, relayVars, callVars>>

\* the child is still running when the timeout has elapsed: subprocess.run kills
\* it, waits for it and raises TimeoutExpired, which the runner catches
TimeoutExpires ==
    /\ r_pc = "wait"
    /\ child = "running"
    /\ elapsed = timeout
    /\ child' = "killed"
    /\ \E k \in 0..Overhead : clock' = clock + k
    /\ pend' = Some(TimeoutResult(childOut))
    /\ cause' = "timeout"
    /\ r_pc' = "finally"
    /\ UNCHANGED <<language, timeout, tmp, phase, elapsed, childOut, launched, comp, ret,
                   escaped, relayVars, callVars>>

\* finally: os.remove(path) / shutil.rmtree(tmpdir), then the pending return
Finally ==
    /\ r_pc = "finally"
    /\ tmp' = "removed"
    /\ ret' = pend
    /\ r_pc' = "done"
    /\ UNCHANGED <<language, timeout, child, phase, elapsed, clock, childOut, launched,
                   comp, pend, escaped, cause, relayVars, callVars>>


(***************************************************************************)
(* Process Runner: the claims                                              *)
(***************************************************************************)
\* C5: once an invocation that created its temporary file or directory has
\* ended, on whatever path, that file or directory no longer exists.
C5_TempRemoved == (r_pc = "done" /\ tmp # "none") => tmp = "removed"

\* C6: every invocation ends by returning a structured result: no exception
\* escapes the runner to its caller (and download_with_hook, whose operation
\* raised an Exception, has put its error outcome when its thread ends).
C6_FailuresAsData ==
    /\ r_pc = "done" => (~escaped /\ ret # None)
    /\ (w_pc = "dead" /\ opResult = "raised") => OutcomesOf(trace) # <<>>

\* C7: after a child was still running when the timeout elapsed, the child has
\* been killed, no further phase is started, and the result is -1 with the stdout
\* captured so far and a non-empty stderr message; no child is alive once the
\* runner has ended.
C7_TimeoutResult ==
    /\ r_pc = "done" => child # "running"
    /\ cause = "timeout" =>
        /\ child = "killed"
        /\ launched[Len(launched)] = phase
        /\ r_pc \in {"finally", "done"}
        /\ pend # None
        /\ pend[1].rc = -1
        /\ pend[1].out = childOut
        /\ pend[1].err # ""
        /\ r_pc = "done" => ret = pend
\* the compiler of a Java run was killed at the timeout after it had written output
C7_Witness ==
    /\ r_pc = "done"
    /\ cause = "timeout"
    /\ language = "Java"
    /\ phase = "compile"
    /\ childOut # EmptyText
    /\ ret # None

\* C8: a returned exit code of -1 comes only from a timeout, -2 only from an
\* internal/launch failure, -3 only from a missing toolchain.
C8_SentinelMeaning ==
    (r_pc = "done" /\ ret # None) =>
        /\ ret[1].rc = -1 => cause = "timeout"
        /\ ret[1].rc = -2 => cause = "internal"
        /\ ret[1].rc = -3 => cause = "toolchain"

\* C9: the run phase of a Java invocation is started only after the compiler has
\* ended with exit code 0; after a non-zero exit code of the compiler no run
\* phase is started and the result is the compiler's own.
C9_CompileThenRun ==
    language = "Java" =>
        /\ (\E i \in 1..Len(launched) : launched[i] = "run") =>
            /\ launched = <<"compile", "run">>
            /\ comp # None
            /\ comp[1].rc = 0
        /\ (comp # None /\ comp[1].rc # 0) =>
            /\ launched = <<"compile">>
            /\ pend = comp
            /\ r_pc = "done" => ret = comp
\* the compiler ended by a signal, with output, and the runner returned its result
C9_Witness ==
    /\ language = "Java"
    /\ r_pc = "done"
    /\ comp # None
    /\ comp[1].rc < 0
    /\ comp[1].out # EmptyText
    /\ ret = comp

\* C10: a result that reports a timeout is returned no later than the timeout
\* plus the fixed overhead after the invocation started.
C10_BoundedResponse ==
    (r_pc = "done" /\ cause = "timeout") =>
        /\ ret[1].rc = -1
        /\ clock <= timeout + Overhead
\* what the code does bound: each subprocess.run has the whole timeout of its own
RunnerTimeBound ==
    r_pc = "done" =>
        clock <= (IF language = "Java" THEN 2 * timeout ELSE timeout) + Overhead

(***************************************************************************)
(* Error Explainer (Code_Bug.py)                                           *)
(*                                                                         *)
(* A text is the sequence of its tokens.  The tokens are the substrings    *)
(* the explainers look for, a line break, a blank and a plain word; a      *)
(* line of the text is the concatenation of its tokens.                    *)
(***************************************************************************)
Tokens == {"\n", " ", "x", ":", "File", "Traceback", "error:", "Error", "Exception"}
\* all sequences over S of length at most n
BSeq(S, n) == UNION {[1..k -> S] : k \in 0..n}
Texts == BSeq(Tokens, MaxText)

\* marker in token, as substrings: "error:" holds ":" as well
TokenHas(t, m) == t = m \/ (t = "error:" /\ m = ":")
\* marker in l, for a line or a whole text
Has(l, m) == \E i \in 1..Len(l) : TokenHas(l[i], m)

\* str.splitlines(): the lines between line breaks, none after a final break
RECURSIVE SplitLines(_)
SplitLines(t) ==
    IF t = <<>> THEN <<>>
    ELSE IF \E i \in 1..Len(t) : t[i] = "\n"
    THEN LET i == CHOOSE k \in 1..Len(t) : t[k] = "\n" /\ \A j \in 1..(k - 1) : t[j] # "\n"
         IN <<SubSeq(t, 1, i - 1)>> \o SplitLines(SubSeq(t, i + 1, Len(t)))
    ELSE <<t>>

\* str.strip(): without the blanks at either end
RECURSIVE LStrip(_)
LStrip(l) == IF l # <<>> /\ Head(l) = " " THEN LStrip(Tail(l)) ELSE l
RECURSIVE RStrip(_)
RStrip(l) == IF l # <<>> /\ l[Len(l)] = " " THEN RStrip(SubSeq(l, 1, Len(l) - 1)) ELSE l
Strip(l) == RStrip(LStrip(l))

\* [l for l in text.splitlines() if l.strip()]
NonBlankLine(l) == Strip(l) # <<>>
NonBlankLines(t) == SelectSeq(SplitLines(t), NonBlankLine)

\* l.strip().startswith('File')
StartsWithFile(l) == Strip(l) # <<>> /\ Strip(l)[1] = "File"

\* an f-string: a fixed label around a line
Sentence(label, body) == [label |-> label, body |-> body]

\* ':' in l and not l.strip().startswith('File')
IsExceptionTypeLine(l) == Has(l, ":") /\ ~StartsWithFile(l)
\* for l in reversed(lines): if ':' in l and not ...: return ...; <<>> when the
\* loop ends without a return
RECURSIVE ScanTraceback(_)
ScanTraceback(lines) ==
    IF lines = <<>> THEN None
    ELSE IF IsExceptionTypeLine(lines[Len(lines)])
    THEN Some(Sentence("Detected runtime exception: ", Strip(lines[Len(lines)])))
    ELSE ScanTraceback(SubSeq(lines, 1, Len(lines) - 1))

explain_runtime_error(output, lang) ==
    IF output = <<>> THEN Sentence("No runtime errors detected.", <<>>)
    ELSE LET lines == NonBlankLines(output) IN
    IF lines = <<>> THEN Sentence("Runtime produced output but no errors present.", <<>>)
    ELSE LET last == lines[Len(lines)] IN
    IF lang = "Python"
    THEN IF Has(output, "Traceback") /\ ScanTraceback(lines) # None
         THEN ScanTraceback(lines)[1]
         ELSE Sentence("Runtime stderr: ", last)
    ELSE Sentence("Runtime/compile message: ", last)

\* for l in lines: if 'error:' in l: return ...
RECURSIVE FirstCompileError(_)
FirstCompileError(lines) ==
    IF lines = <<>> THEN None
    ELSE IF Has(Head(lines), "error:")
    THEN Some(Sentence("Compilation error detected: ", Strip(Head(lines))))
    ELSE FirstCompileError(Tail(lines))
\* for l in reversed(lines): if 'Exception' in l or 'Error' in l: return ...
RECURSIVE LastException(_)
LastException(lines) ==
    IF lines = <<>> THEN None
    ELSE IF Has(lines[Len(lines)], "Exception") \/ Has(lines[Len(lines)], "Error")
    THEN Some(Sentence("Runtime exception detected: ", Strip(lines[Len(lines)])))
    ELSE LastException(SubSeq(lines, 1, Len(lines) - 1))

explain_java_error_RuntimeFirst(stderr) ==
    IF stderr = <<>> THEN Sentence("No compilation/runtime errors detected.", <<>>)
    ELSE LET lines == NonBlankLines(stderr) IN
    IF lines = <<>>
    THEN Sentence("Java produced output on stderr but no clear message to summarize.", <<>>)
    ELSE IF LastException(lines) # None THEN LastException(lines)[1]
    ELSE IF FirstCompileError(lines) # None THEN FirstCompileError(lines)[1]
    ELSE Sentence("Java stderr: ", lines[Len(lines)])
explain_java_error(stderr) ==
    IF stderr = <<>> THEN Sentence("No compilation/runtime errors detected.", <<>>)
    ELSE LET lines == NonBlankLines(stderr) IN
    IF lines = <<>>
    THEN Sentence("Java produced output on stderr but no clear message to summarize.", <<>>)
    ELSE IF FirstCompileError(lines) # None THEN FirstCompileError(lines)[1]
    ELSE IF LastException(lines) # None THEN LastException(lines)[1]
    ELSE Sentence("Java stderr: ", lines[Len(lines)])

\* explain_runtime_error(err, language), as the Python handler calls it
ExplainRuntimeError ==
    /\ p_pc = "call"
    /\ p_in \in Texts
    /\ p_out' = [fn |-> "explain_runtime_error", out |-> explain_runtime_error(p_in, "Python")]
    /\ p_pc' = "returned"
    /\ UNCHANGED <<p_in, shown, relayVars, runnerVars>>

\* explain_java_error(err), as the Java handler calls it
ExplainJavaError ==
    /\ p_pc = "call"
    /\ p_in \in Texts
    /\ p_out' = [fn |-> "explain_java_error", out |-> explain_java_error(p_in)]
    /\ p_pc' = "returned"
    /\ UNCHANGED <<p_in, shown, relayVars, runnerVars>>

\* an explainer is about to be called on some captured text
ExplainInit ==
    /\ RelayInit
    /\ RunnerInit
    /\ shown = <<>>
    /\ p_pc = "call"
    /\ p_in \in Texts
    /\ p_out = <<>>

ExplainNext == ExplainRuntimeError \/ ExplainJavaError
ExplainSpec == ExplainInit /\ [][ExplainNext]_vars

(***************************************************************************)
(* Realtime Execution handlers (Code_Bug.py): what is rendered after a run *)
(***************************************************************************)
\* the tokens of a stderr text of the runner model
Tokenize(e) == IF e = "" THEN <<>> ELSE IF e = "Traceback" THEN <<"Traceback">> ELSE <<"x">>

\* a call of st.success, st.error, st.subheader, st.code or st.info; of says what
\* the argument is made of
Widget(w, of, val) == [w |-> w, of |-> of, val |-> val]

\* if rc == 0 and not err:
IsSuccessIgnoringStderr(rc, err) == rc = 0
IsSuccess(rc, err) == rc = 0 /\ err = ""

\* the success branch: st.success and, if out, the program output
SuccessWidgets(out) ==
    <<Widget("success", "literal", "No errors occurred during execution.")>>
    \o (IF out # EmptyText
        THEN <<Widget("subheader", "literal", "Program Output"), Widget("code", "out", out)>>
        ELSE <<>>)
\* the else branch: st.error and, if err, the stderr and its explanation,
\* otherwise the exit code
FailureWidgets(rc, err, message, header, sentence) ==
    <<Widget("error", "literal", message)>>
    \o (IF err # ""
        THEN <<Widget("subheader", "literal", header), Widget("code", "err", err),
               Widget("subheader", "literal", "Explanation"),
               Widget("info", "explain", sentence)>>
        ELSE <<Widget("info", "exit_code", rc)>>)

\* the Python handler, after rc, out, err = run_python_realtime(code, timeout=6)
PresentPython ==
    /\ r_pc = "done"
    /\ language = "Python"
    /\ ret # None
    /\ shown = <<>>
    /\ LET rc == ret[1].rc
           out == ret[1].out
           err == ret[1].err
       IN shown' = IF IsSuccess(rc, err)
                   THEN SuccessWidgets(out)
                   ELSE FailureWidgets(rc, err, "Errors occurred during execution.",
                                       "Error Traceback / Stderr",
                                       explain_runtime_error(Tokenize(err), language))
    /\ UNCHANGED <<p_pc, p_in, p_out, relayVars, runnerVars>>

\* the Java handler, after rc, out, err = run_java_realtime(code, timeout=10)
PresentJava ==
    /\ r_pc = "done"
    /\ language = "Java"
    /\ ret # None
    /\ shown = <<>>
    /\ LET rc == ret[1].rc
           out == ret[1].out
           err == ret[1].err
       IN shown' = IF IsSuccess(rc, err)
                   THEN SuccessWidgets(out)
                   ELSE IF rc = -3
                   THEN <<Widget("error", "literal",
                                 "Java toolchain not found: javac/java must be on PATH to run Java code.")>>
                   ELSE FailureWidgets(rc, err, "Errors occurred during compilation or execution.",
                                       "Compiler / Runtime Stderr",
                                       explain_java_error(Tokenize(err)))
    /\ UNCHANGED <<p_pc, p_in, p_out, relayVars, runnerVars>>

RunnerNext ==
    \/ RunRequest \/ Which \/ MakeTemp \/ WritePython \/ WriteJava
    \/ Launch \/ LaunchFails \/ Tick \/ ChildWrites \/ ChildExits \/ TimeoutExpires
    \/ Finally \/ PresentPython \/ PresentJava

RunnerSpec == Init /\ [][RunnerNext]_vars

(***************************************************************************)
(* Realtime Execution handlers: the claim                                  *)
(***************************************************************************)
\* the widgets of shown made of what
WidgetsOf(of) == {i \in 1..Len(shown) : shown[i].of = of}
\* the ExecutionResult is a failure
IsFailure(r) == r.rc # 0 \/ r.err # ""

\* C12 as stated: after every run whose result is a failure, the handler shows
\* the raw diagnostic text and exactly one sentence of the Error Explainer.
C12_EveryFailureExplained ==
    (shown # <<>> /\ IsFailure(ret[1])) =>
        /\ Cardinality(WidgetsOf("explain")) = 1
        /\ WidgetsOf("err") # {}

\* C12 as amended: after a failure with non-empty stderr (and, for Java, an exit
\* code other than -3) the handler shows the stderr verbatim and exactly one
\* sentence, the language's explainer applied to that stderr; after a failure
\* with empty stderr it shows only the exit code; after a Java result of -3 it
\* shows only the toolchain message; it shows no explanation after a success.
C12_FailureReporting ==
    shown # <<>> =>
        LET r == ret[1]
            toolchain == language = "Java" /\ r.rc = -3
            explained == IsFailure(r) /\ r.err # "" /\ ~toolchain
        IN /\ shown[1].w = (IF IsFailure(r) THEN "error" ELSE "success")
           /\ explained =>
                /\ Cardinality(WidgetsOf("err")) = 1
                /\ \A i \in WidgetsOf("err") : shown[i].w = "code" /\ shown[i].val = r.err
                /\ Cardinality(WidgetsOf("explain")) = 1
                /\ \A i \in WidgetsOf("explain") :
                    shown[i].val = IF language = "Java"
                                   THEN explain_java_error(Tokenize(r.err))
                                   ELSE explain_runtime_error(Tokenize(r.err), "Python")
                /\ WidgetsOf("exit_code") = {}
           /\ ~explained => (WidgetsOf("explain") = {} /\ WidgetsOf("err") = {})
           /\ (IsFailure(r) /\ r.err = "" /\ ~toolchain) =>
                /\ Cardinality(WidgetsOf("exit_code")) = 1
                /\ \A i \in WidgetsOf("exit_code") : shown[i].val = r.rc
           /\ toolchain => Len(shown) = 1
\* a Python run that timed out was rendered with its stderr and one explanation
C12_Witness ==
    /\ shown # <<>>
    /\ language = "Python"
    /\ cause = "timeout"
    /\ Cardinality(WidgetsOf("explain")) = 1
    /\ Cardinality(WidgetsOf("err")) = 1

(***************************************************************************)
(* Error Explainer: the claim                                              *)
(***************************************************************************)
\* the index of the last line of lines that satisfies P
LastIndex(lines, P(_)) == CHOOSE i \in 1..Len(lines) : P(lines[i]) /\ \A j \in (i + 1)..Len(lines) : ~P(lines[j])
HasCompilerMarker(l) == Has(l, "error:")
HasExceptionMarker(l) == Has(l, "Exception") \/ Has(l, "Error")
HasTracebackMarker(l) == Has(l, "Traceback")
NoMarker(l) == FALSE

\* the three rules, by first match, over the markers C (compiler error) and E
\* (exception/error) and with the labels of the sentences
FollowsPriority(out, lines, C(_), E(_), compileLabel, exceptionLabel, genericLabel) ==
    IF \E i \in 1..Len(lines) : C(lines[i])
    THEN /\ out.label = compileLabel
         /\ \E i \in 1..Len(lines) : C(lines[i]) /\ out.body = Strip(lines[i])
    ELSE IF \E i \in 1..Len(lines) : E(lines[i])
    THEN /\ out.label = exceptionLabel
         /\ out.body = Strip(lines[LastIndex(lines, E)])
    ELSE /\ out.label = genericLabel
         /\ out.body = lines[Len(lines)]

JavaFollowsPriority(out, lines) ==
    FollowsPriority(out, lines, HasCompilerMarker, HasExceptionMarker,
                    "Compilation error detected: ", "Runtime exception detected: ",
                    "Java stderr: ")
\* for Python, with the markers of Java, or with 'Traceback' as the exception
\* marker and no compiler-error marker
PythonFollowsPriority(out, lines) ==
    \/ FollowsPriority(out, lines, HasCompilerMarker, HasExceptionMarker,
                       "Detected runtime exception: ", "Detected runtime exception: ",
                       "Runtime stderr: ")
    \/ FollowsPriority(out, lines, NoMarker, HasTracebackMarker,
                       "Detected runtime exception: ", "Detected runtime exception: ",
                       "Runtime stderr: ")
\* what explain_runtime_error does for Python: two rules
PythonFollowsTraceback(out, text, lines) ==
    IF Has(text, "Traceback") /\ \E i \in 1..Len(lines) : IsExceptionTypeLine(lines[i])
    THEN /\ out.label = "Detected runtime exception: "
         /\ out.body = Strip(lines[LastIndex(lines, IsExceptionTypeLine)])
    ELSE /\ out.label = "Runtime stderr: "
         /\ out.body = lines[Len(lines)]

\* C11 as stated: for a text with a non-blank line, either explainer picks its
\* sentence by the first match of (1) a line with the compiler-error marker, (2) the
\* last line with an exception/error marker, (3) the generic label and the last
\* non-blank line verbatim.
C11_PriorityBothLanguages ==
    (p_pc = "returned" /\ NonBlankLines(p_in) # <<>>) =>
        IF p_out.fn = "explain_java_error"
        THEN JavaFollowsPriority(p_out.out, NonBlankLines(p_in))
        ELSE PythonFollowsPriority(p_out.out, NonBlankLines(p_in))

\* C11 as amended: explain_java_error follows the three rules; explain_runtime_error
\* for Python summarises the last non-blank line that holds ':' and does not start
\* with 'File' when the text holds 'Traceback' and has such a line, and otherwise
\* returns the generic label and the last non-blank line verbatim.
C11_Priority ==
    (p_pc = "returned" /\ NonBlankLines(p_in) # <<>>) =>
        IF p_out.fn = "explain_java_error"
        THEN JavaFollowsPriority(p_out.out, NonBlankLines(p_in))
        ELSE PythonFollowsTraceback(p_out.out, p_in, NonBlankLines(p_in))
\* a Java text whose first line holds an exception marker and whose second line,
\* padded with a blank, holds the compiler-error marker: rule (1) won over rule (2)
C11_Witness ==
    /\ p_pc = "returned"
    /\ p_out.fn = "explain_java_error"
    /\ p_in = <<"Exception", "\n", "error:", " ">>
    /\ p_out.out = Sentence("Compilation error detected: ", <<"error:">>)

(***************************************************************************)
(* Progress display (app.py): the handling of one event by the polling     *)
(* loop                                                                    *)
(***************************************************************************)
\* a byte count of the dict, or None when the key is absent
OptBytes == {None} \cup {Some(n) : n \in -MaxBytes..MaxBytes}
\* the dicts yt-dlp passes to the progress hook and the loop takes from events_q
ProgressEvents ==
    [status : Statuses, total_bytes : OptBytes, total_bytes_estimate : OptBytes,
     downloaded_bytes : OptBytes]

\* a value is falsy: None or 0
Falsy(o) == o = None \/ o[1] = 0
\* a or b
Or(a, b) == IF Falsy(a) THEN b ELSE a
\* ev.get("downloaded_bytes", 0)
GetOr0(o) == IF o = None THEN 0 ELSE o[1]

Abs(n) == IF n < 0 THEN -n ELSE n
\* int(x) of the quotient n / d: rounded towards zero
IntOfQuotient(n, d) ==
    IF (n < 0) = (d < 0) THEN Abs(n) \div Abs(d) ELSE -(Abs(n) \div Abs(d))
\* int(min(downloaded / total * 100, 100)), total not 0
Pct(downloaded, total) ==
    IF IntOfQuotient(downloaded * 100, total) >= 100
    THEN 100
    ELSE IntOfQuotient(downloaded * 100, total)

\* the body of the drain for one event: what progress_placeholder and
\* filename_placeholder show after it, given what they showed before
HandleEvent(ev, display) ==
    IF ev.status = "downloading"
    THEN LET total == Or(ev.total_bytes, ev.total_bytes_estimate)
             downloaded == GetOr0(ev.downloaded_bytes)
         IN IF ~Falsy(total)
            THEN [progress |-> Some(Pct(downloaded, total[1])),
                  text |-> [label |-> "Downloading... ", pct |-> Some(Pct(downloaded, total[1]))]]
            ELSE [progress |-> display.progress,
                  text |-> [label |-> "Downloading... ", pct |-> None]]
    ELSE IF ev.status = "finished"
    THEN [progress |-> Some(100),
          text |-> [label |-> "Download finished. Finalizing...", pct |-> None]]
    ELSE IF ev.status = "error"
    THEN [progress |-> display.progress,
          text |-> [label |-> "Error during download.", pct |-> None]]
    ELSE display

\* progress_placeholder.empty(), filename_placeholder.empty()
EmptyDisplay == [progress |-> None, text |-> [label |-> "", pct |-> None]]

\* what the placeholders show before an event is handled: nothing, or what an
\* earlier 'finished' event left
Displays ==
    {EmptyDisplay,
     [progress |-> Some(100),
      text |-> [label |-> "Download finished. Finalizing...", pct |-> None]]}
\* an event taken from events_q and the display at that moment
Handlings == [ev : ProgressEvents, before : Displays]

\* the polling loop handles the event it took from events_q
HandleProgressEvent ==
    /\ p_pc = "call"
    /\ p_in \in Handlings
    /\ p_out' = HandleEvent(p_in.ev, p_in.before)
    /\ p_pc' = "returned"
    /\ UNCHANGED <<p_in, shown, relayVars, runnerVars>>

\* some event has been taken from events_q
ProgressInit ==
    /\ RelayInit
    /\ RunnerInit
    /\ shown = <<>>
    /\ p_pc = "call"
    /\ p_in \in Handlings
    /\ p_out = <<>>

ProgressNext == HandleProgressEvent
ProgressSpec == ProgressInit /\ [][ProgressNext]_vars

(***************************************************************************)
(* Progress display: the claim                                             *)
(***************************************************************************)
\* a total is known: total_bytes, else total_bytes_estimate, present and not zero
TotalKnown(ev) ==
    \/ (ev.total_bytes # None /\ ev.total_bytes[1] # 0)
    \/ (ev.total_bytes_estimate # None /\ ev.total_bytes_estimate[1] # 0)

\* C13: after a 'downloading' event is handled, the progress bar shows an integer
\* of 0..100 (and the text the same percentage) when a total is known, and when no
\* total is known only the text is updated: it holds no percentage and the bar is
\* given no value (it stays as it was).
C13_ProgressPercentage ==
    (p_pc = "returned" /\ p_in.ev.status = "downloading") =>
        IF TotalKnown(p_in.ev)
        THEN /\ p_out.progress # None
             /\ p_out.progress[1] \in 0..100
             /\ p_out.text.pct = p_out.progress
        ELSE /\ p_out.progress = p_in.before.progress
             /\ p_out.text.pct = None
             /\ p_out.text.label = "Downloading... "

(***************************************************************************)
(* File resolution (app.py): after a 'finished' outcome the handler looks  *)
(* for the downloaded file in DOWNLOAD_DIR.  A name is a sequence of       *)
(* characters; the directory gives every name its modification time, 0 for *)
(* a name that is not there.                                               *)
(***************************************************************************)
MaxMtime == 2
MaxTitle == 2

\* the names a file of DOWNLOAD_DIR may have; one of them is hidden
FileNames == {<<"a">>, <<"b">>, <<"b", "a">>, <<".", "a">>}
\* the contents of DOWNLOAD_DIR: os.path.getmtime of every name, 0 when absent
Directories == [FileNames -> 0..MaxMtime]
\* info.get("title", ""): characters the sanitizer keeps and drops
TitleChars == {"a", "b", " ", "!"}
Titles == BSeq(TitleChars, MaxTitle)
\* ydl.prepare_filename(info), or nothing when it raised
ExpectedNames == {None} \cup {Some(n) : n \in FileNames}
ResolveInputs == [dir : Directories, title : Titles, expected : ExpectedNames]

\* c.isalnum() or c in (" ", "-", "_")
KeptChar(c) == c \in {"a", "b", " ", "-", "_"}
\* "".join(c for c in name if ...).rstrip()
sanitize_filename(name) == RStrip(SelectSeq(name, KeptChar))

\* sub in name
Contains(name, sub) ==
    \E i \in 0..(Len(name) - Len(sub)) : SubSeq(name, i + 1, i + Len(sub)) = sub
\* os.path.exists(name)
Exists(dir, name) == dir[name] > 0
\* glob.glob: a pattern that begins with * matches no name that begins with a dot
GlobStar(dir) == {n \in FileNames : Exists(dir, n) /\ n[1] # "."}
\* glob.glob(f"*{t}*")
GlobContaining(dir, t) == {n \in GlobStar(dir) : Contains(n, t)}

\* files.sort(key=os.path.getmtime, reverse=True); files[0] -- the order glob
\* lists files of one modification time in is not determined
OldestFirst(dir, files) == {f \in files : \A g \in files : dir[f] <= dir[g]}
LatestFirst(dir, files) == {f \in files : \A g \in files : dir[g] <= dir[f]}

\* the files find_latest_file_with_title(title) may return; none when not files
find_latest_file_with_title(dir, title) ==
    LatestFirst(dir, GlobContaining(dir, sanitize_filename(title)))

\* if expected and os.path.exists(expected): downloaded_file = expected
TryExpected ==
    /\ p_pc = "expected"
    /\ p_out' = IF p_in.expected # None /\ Exists(p_in.dir, p_in.expected[1])
                THEN p_in.expected
                ELSE None
    /\ p_pc' = "title"
    /\ UNCHANGED <<p_in, shown, relayVars, runnerVars>>

\* if not downloaded_file and title: downloaded_file = find_latest_file_with_title(title)
FindByTitle ==
    /\ p_pc = "title"
    /\ IF p_out = None /\ p_in.title # <<>>
       THEN IF find_latest_file_with_title(p_in.dir, p_in.title) = {}
            THEN p_out' = None
            ELSE \E f \in find_latest_file_with_title(p_in.dir, p_in.title) :
                     p_out' = Some(f)
       ELSE p_out' = p_out
    /\ p_pc' = "recent"
    /\ UNCHANGED <<p_in, shown, relayVars, runnerVars>>

\* if not downloaded_file: the most recent of glob("*"), if any
FindMostRecent ==
    /\ p_pc = "recent"
    /\ IF p_out = None /\ GlobStar(p_in.dir) # {}
       THEN \E f \in LatestFirst(p_in.dir, GlobStar(p_in.dir)) : p_out' = Some(f)
       ELSE p_out' = p_out
    /\ p_pc' = "done"
    /\ UNCHANGED <<p_in, shown, relayVars, runnerVars>>

\* the outcome was 'finished'; title and info have been extracted
ResolveInit ==
    /\ RelayInit
    /\ RunnerInit
    /\ shown = <<>>
    /\ p_pc = "expected"
    /\ p_in \in ResolveInputs
    /\ p_out = None
ResolveNext == TryExpected \/ FindByTitle \/ FindMostRecent
ResolveSpec == ResolveInit /\ [][ResolveNext]_vars

(***************************************************************************)
(* File resolution: the claim                                              *)
(***************************************************************************)
\* f is a most recently modified file of the set S
MostRecentOf(f, S) == f \in S /\ \A g \in S : p_in.dir[g] <= p_in.dir[f]
\* the resolved file is the first match of the three steps, the directory being
\* the files of S
FirstMatch(S) ==
    LET titled == {n \in S : Contains(n, sanitize_filename(p_in.title))}
    IN IF p_in.expected # None /\ p_in.dir[p_in.expected[1]] > 0
       THEN p_out = p_in.expected
       ELSE IF titled # {}
       THEN p_out # None /\ MostRecentOf(p_out[1], titled)
       ELSE IF S # {}
       THEN p_out # None /\ MostRecentOf(p_out[1], S)
       ELSE p_out = None
\* the files of the output directory, and those glob lists
AllFiles == {n \in FileNames : p_in.dir[n] > 0}
ListedFiles == {n \in AllFiles : n[1] # "."}

\* C14 as stated: the resolved file is the expected file if it exists, otherwise
\* the most recently modified file whose name contains the sanitized title,
\* otherwise the most recently modified file of the directory, and none when
\* the directory is empty.
C14_FirstMatchWins == p_pc = "done" => FirstMatch(AllFiles)

\* C14: the same order of steps, where steps (2) and (3) search only the files
\* whose names do not begin with a dot.
C14_Resolution == p_pc = "done" => FirstMatch(ListedFiles)
\* the expected file is absent and a hidden file is the newest one that contains
\* the title: the newest listed file that contains the title is resolved
C14_Witness ==
    /\ p_pc = "done"
    /\ p_in.expected = Some(<<"b">>)
    /\ p_in.title = <<"a", "!">>
    /\ p_in.dir = [n \in FileNames |->
                     IF n = <<".", "a">> THEN 2 ELSE IF n = <<"b">> THEN 0 ELSE 1]
    /\ p_out = Some(<<"a">>)
====
